---- MODULE Spec2Model ----
(***************************************************************************)
(* A model of acme-lib's persistence keys and stores (persist.rs), the     *)
(* nonce handling around ExtractHeader (req.rs) against the fixture CA     *)
(* (test/mod.rs), CSR construction and certificate expiry (cert.rs).       *)
(*                                                                         *)
(* Strings are sequences of one-character strings.  Each component has its *)
(* own specification (SpecKey, SpecStore, SpecShared, SpecNonce, SpecCsr,  *)
(* SpecDays); the variables of the other components stay at their idle     *)
(* values.                                                                 *)
(***************************************************************************)
EXTENDS Integers, Sequences, FiniteSets, TLC

VARIABLES
    \* PersistKey formatting (persist.rs 42-80)
    keyA, keyB, strA, strB, pathA, kpc,
    \* the stores (persist.rs 103-181)
    unix, umask, store, mem, files, lastPut, lastOp, nops,
    \* callers sharing one store
    th, lock, putVals, gets,
    \* one session's signed requests (req.rs, test/mod.rs)
    ca, cache, issued, sent, ncalls,
    \* create_csr (cert.rs 46-76)
    domains, sanBuild, csr,
    \* Certificate::valid_days_left (cert.rs 115-148)
    cfgTest, notAfter, now, days,
    \* the operations of cert.rs over openssl's primitives
    cop, cfail, cres,
    \* From<ureq::Error> for Error (error.rs 71-116)
    uerr, boxed, converted

keyVars == <<keyA, keyB, strA, strB, pathA, kpc>>
storeVars == <<unix, umask, store, mem, files>>
seqVars == <<lastPut, lastOp, nops>>
shVars == <<th, lock, putVals, gets>>
nonceVars == <<ca, cache, issued, sent, ncalls>>
csrVars == <<domains, sanBuild, csr>>
dayVars == <<cfgTest, notAfter, now, days>>
cryptoVars == <<cop, cfail, cres>>
errVars == <<uerr, boxed, converted>>
restVars == <<nonceVars, csrVars, dayVars, cryptoVars, errVars>>
vars == <<keyVars, storeVars, seqVars, shVars, restVars>>

\* Option: None, Some(x).
None == <<>>
Some(x) == <<x>>

\* The value of a variable the running specification does not use.
Idle == "idle"

(***************************************************************************)
(* Strings                                                                 *)
(***************************************************************************)
RECURSIVE Digits(_)
\* Display of an unsigned integer: its decimal digits.
Digits(n) ==
    LET d == <<"0", "1", "2", "3", "4", "5", "6", "7", "8", "9">>
    IN  IF n < 10 THEN <<d[n + 1]>> ELSE Digits(n \div 10) \o <<d[(n % 10) + 1]>>

RECURSIVE Replace(_, _, _)
\* str::replace(from, to) for a one-character pattern.
Replace(s, from, to) ==
    IF s = <<>> THEN <<>>
    ELSE (IF Head(s) = from THEN to ELSE <<Head(s)>>) \o Replace(Tail(s), from, to)

Contains(s, c) == \E i \in 1..Len(s) : s[i] = c

\* The largest index of c in s, 0 when s has no c.
LastIndexOf(s, c) ==
    IF Contains(s, c) THEN CHOOSE i \in 1..Len(s) : s[i] = c /\ \A j \in (i + 1)..Len(s) : s[j] # c
    ELSE 0

(***************************************************************************)
(* PersistKind and PersistKey                                              *)
(***************************************************************************)
PersistKind == {"AccountPrivateKey", "PrivateKey", "Certificate"}

KindName(kind) ==
    CASE kind = "Certificate" -> <<"c", "r", "t">>
      [] kind = "PrivateKey" -> <<"k", "e", "y">>
      [] kind = "AccountPrivateKey" -> <<"k", "e", "y">>

\* PersistKey { realm, kind, key }: realm is the u64 the hasher returned.
PersistKey(realm, kind, key) == [realm |-> realm, kind |-> kind, key |-> key]

Sanitize(key) == Replace(Replace(key, ".", <<"_">>), "*", <<"S", "T", "A", "R">>)

\* impl Display for PersistKey: "{}_{}_{}".
to_string(k) ==
    Digits(k.realm) \o <<"_">> \o KindName(k.kind) \o <<"_">> \o Sanitize(k.key)

(***************************************************************************)
(* std::path on Unix-style paths, as far as path_in uses it                *)
(***************************************************************************)
RECURSIVE StripTrailingSep(_)
StripTrailingSep(p) ==
    IF Len(p) > 1 /\ p[Len(p)] = "/" THEN StripTrailingSep(SubSeq(p, 1, Len(p) - 1)) ELSE p

\* Path::join: an absolute argument replaces the path, otherwise it is
\* pushed after a separator.
PathJoin(dir, s) ==
    IF s # <<>> /\ Head(s) = "/" THEN s
    ELSE IF dir # <<>> /\ dir[Len(dir)] = "/" THEN dir \o s
    ELSE dir \o <<"/">> \o s

\* Path::file_name: the last component, trailing separators dropped.
FileName(p) ==
    LET q == StripTrailingSep(p)
    IN  SubSeq(q, LastIndexOf(q, "/") + 1, Len(q))

\* Path::parent of a path with a file name.
ParentOf(p) ==
    LET q == StripTrailingSep(p)
        i == LastIndexOf(q, "/")
    IN  IF i = 0 THEN <<>> ELSE StripTrailingSep(SubSeq(q, 1, i))

\* Path::file_stem: the file name up to its last '.', unless that '.' leads.
FileStem(p) ==
    LET n == FileName(p)
        i == LastIndexOf(n, ".")
    IN  IF n = <<".", ".">> \/ i <= 1 THEN n ELSE SubSeq(n, 1, i - 1)

\* PathBuf::set_extension: truncate right after the file stem, push "." ext.
SetExtension(p, ext) ==
    LET q == StripTrailingSep(p)
        n == FileName(p)
    IN  IF n = <<>> \/ n = <<".", ".">> THEN p
        ELSE SubSeq(q, 1, Len(q) - Len(n) + Len(FileStem(p))) \o <<".">> \o ext

path_in(k, dir) == SetExtension(PathJoin(dir, to_string(k)), KindName(k.kind))

(***************************************************************************)
(* SpecKey: two keys are formatted, the first one's path is built          *)
(***************************************************************************)
Realms == {0, 7, 12}

Names ==
    { <<>>, <<"a">>, <<".">>, <<"_">>, <<"*">>,
      <<"a", ".", "b">>, <<"a", "_", "b">>, <<"S", "T", "A", "R">>,
      <<"*", ".", "a">>, <<"a", "/", "b">>, <<"a", "/">> }

Keys == {PersistKey(r, kd, n) : r \in Realms, kd \in PersistKind, n \in Names}

Dir == <<"d">>

IdleKey ==
    /\ keyA = Idle /\ keyB = Idle /\ strA = Idle /\ strB = Idle
    /\ pathA = Idle /\ kpc = Idle

InitKey ==
    /\ keyA \in Keys /\ keyB \in Keys
    /\ strA = <<>> /\ strB = <<>> /\ pathA = <<>>
    /\ kpc = "new"

Display ==
    /\ kpc = "new"
    /\ strA' = to_string(keyA)
    /\ strB' = to_string(keyB)
    /\ kpc' = "shown"
    /\ UNCHANGED <<keyA, keyB, pathA, storeVars, seqVars, shVars, restVars>>

PathIn ==
    /\ kpc = "shown"
    /\ pathA' = path_in(keyA, Dir)
    /\ kpc' = "path"
    /\ UNCHANGED <<keyA, keyB, strA, strB, storeVars, seqVars, shVars, restVars>>

NextKey == Display \/ PathIn

(***************************************************************************)
(* The stores.  A FilePersist directory starts empty and holds no          *)
(* subdirectory; a file is [exists, data, mode], mode being None where the *)
(* platform has no Unix permissions.                                       *)
(***************************************************************************)
KeyMode == 384          \* 0o600
CreateMode == 438       \* 0o666, what File::create asks for
Umasks == {0, 18, 63}   \* 0o000, 0o022, 0o077

RECURSIVE BitAndNot(_, _)
\* m & !mask
BitAndNot(m, mask) ==
    IF m = 0 THEN 0
    ELSE (IF m % 2 = 1 /\ mask % 2 = 0 THEN 1 ELSE 0) + 2 * BitAndNot(m \div 2, mask \div 2)

Values == {<<1>>, <<2, 2>>}

StoreKeys ==
    { PersistKey(7, "AccountPrivateKey", <<"a">>),
      PersistKey(7, "PrivateKey", <<"a">>),
      PersistKey(7, "Certificate", <<"a">>),
      PersistKey(12, "PrivateKey", <<"a">>),
      PersistKey(7, "PrivateKey", <<"a", ".", "b">>),
      PersistKey(7, "Certificate", <<"a", "/", "b">>) }

AllPaths == {path_in(k, Dir) : k \in StoreKeys}
AllStrs == {to_string(k) : k \in StoreKeys}

NoFile == [exists |-> FALSE, data |-> <<>>, mode |-> None]

Unit == <<"unit">>
Ok(x) == <<"Ok", x>>
Err(x) == <<"Err", x>>

\* PersistKey::path_from, which FilePersist::put calls on Unix: the file of
\* the key under the store's directory.
path_from(k, dir) == path_in(k, dir)

\* open(2) with O_CREAT: the file can be created where its parent exists.
CanCreate(path) == ParentOf(path) = Dir

\* A file opened with create + truncate and then written in full.
Written(fs, path, value, mode) ==
    [fs EXCEPT ![path] = [exists |-> TRUE, data |-> value,
                          mode |-> IF fs[path].exists THEN fs[path].mode ELSE mode]]

\* fs::write: File::create(path)?.write_all(value).
FsWrite(fs, path, value, m) ==
    IF CanCreate(path)
    THEN [fs |-> Written(fs, path, value, m), res |-> Ok(Unit)]
    ELSE [fs |-> fs, res |-> Err("Io")]

\* OpenOptions::new().mode(0o600).write(true).truncate(true).create(true)
\*   .open(path)?.write_all(value)
OpenModeWrite(fs, path, value, m) ==
    IF CanCreate(path)
    THEN [fs |-> Written(fs, path, value, m), res |-> Ok(Unit)]
    ELSE [fs |-> fs, res |-> Err("Io")]

\* FilePersist::put with every kind written through fs::write.
FilePersist_put_nomode(fs, ux, um, k, value) ==
    FsWrite(fs, path_in(k, Dir), value, IF ux THEN Some(BitAndNot(CreateMode, um)) ELSE None)

\* FilePersist::put, both cfg branches.
FilePersist_put(fs, ux, um, k, value) ==
    IF ~ux THEN FsWrite(fs, path_in(k, Dir), value, None)
    ELSE IF k.kind \in {"AccountPrivateKey", "PrivateKey"}
         THEN OpenModeWrite(fs, path_from(k, Dir), value, Some(BitAndNot(KeyMode, um)))
         ELSE FsWrite(fs, path_from(k, Dir), value, Some(BitAndNot(CreateMode, um)))

\* FilePersist::get with the open error propagated (File::open(path)?).
FilePersist_get_strict(fs, k) ==
    LET path == path_in(k, Dir)
    IN  IF fs[path].exists THEN Ok(Some(fs[path].data)) ELSE Err("Io")

\* FilePersist::get: a file that cannot be opened reads as None.
FilePersist_get(fs, k) ==
    LET path == path_in(k, Dir)
    IN  IF fs[path].exists THEN Ok(Some(fs[path].data)) ELSE Ok(None)

MemoryPersist_put(m, k, value) == [m EXCEPT ![to_string(k)] = Some(value)]

MemoryPersist_get(m, k) == Ok(m[to_string(k)])

MaxOps == 3

IdleStoreSeq == lastPut = Idle /\ lastOp = Idle /\ nops = 0

InitStoreVars ==
    /\ store \in {"mem", "file"}
    /\ unix \in (IF store = "file" THEN BOOLEAN ELSE {TRUE})
    /\ umask \in (IF store = "file" /\ unix THEN Umasks ELSE {18})
    /\ mem = [s \in AllStrs |-> None]
    /\ files = [p \in AllPaths |-> NoFile]

IdleStoreVars ==
    /\ store = Idle /\ unix = TRUE /\ umask = 0 /\ mem = Idle /\ files = Idle

InitStoreSeq ==
    /\ lastPut = [k \in StoreKeys |-> None]
    /\ lastOp = [op |-> "new"]
    /\ nops = 0

Put(k, v) ==
    /\ nops < MaxOps
    /\ nops' = nops + 1
    /\ IF store = "mem"
       THEN /\ mem' = MemoryPersist_put(mem, k, v)
            /\ lastOp' = [op |-> "put", key |-> k, val |-> v, res |-> Ok(Unit)]
            /\ lastPut' = [lastPut EXCEPT ![k] = Some(v)]
            /\ UNCHANGED files
       ELSE LET r == FilePersist_put(files, unix, umask, k, v)
            IN  /\ files' = r.fs
                /\ lastOp' = [op |-> "put", key |-> k, val |-> v, res |-> r.res]
                /\ lastPut' = IF r.res[1] = "Ok" THEN [lastPut EXCEPT ![k] = Some(v)] ELSE lastPut
                /\ UNCHANGED mem
    /\ UNCHANGED <<unix, umask, store, keyVars, shVars, restVars>>

Get(k) ==
    /\ nops < MaxOps
    /\ nops' = nops + 1
    /\ lastOp' = [op |-> "get", key |-> k, val |-> None,
                  res |-> IF store = "mem" THEN MemoryPersist_get(mem, k)
                          ELSE FilePersist_get(files, k)]
    /\ UNCHANGED <<lastPut, storeVars, keyVars, shVars, restVars>>

NextStore ==
    \/ \E k \in StoreKeys, v \in Values : Put(k, v)
    \/ \E k \in StoreKeys : Get(k)

(***************************************************************************)
(* SpecShared: two callers hold clones of one store.  MemoryPersist takes  *)
(* the mutex for the whole call; FilePersist makes its system calls one    *)
(* after another with nothing held in between.                             *)
(***************************************************************************)
Threads == {1, 2}
MaxCalls == 2

ShKeys ==
    { PersistKey(7, "PrivateKey", <<"a">>),
      PersistKey(7, "Certificate", <<"a">>) }

IdleShared == th = Idle /\ lock = Idle /\ putVals = Idle /\ gets = Idle

InitShared ==
    /\ th = [t \in Threads |-> [pc |-> "idle", key |-> None, val |-> None, n |-> 0]]
    /\ lock = 0
    /\ putVals = [k \in ShKeys |-> {}]
    /\ gets = {}

Return(t) == [th EXCEPT ![t] = [pc |-> "idle", key |-> None, val |-> None, n |-> @.n + 1]]

\* A caller enters put(key, value).
CallPut(t, k, v) ==
    /\ th[t].pc = "idle" /\ th[t].n < MaxCalls
    /\ th' = [th EXCEPT ![t] = [pc |-> IF store = "mem" THEN "put_lock" ELSE "put_open",
                                key |-> k, val |-> v, n |-> @.n]]
    /\ putVals' = [putVals EXCEPT ![k] = @ \cup {v}]
    /\ UNCHANGED <<lock, gets, storeVars, seqVars, keyVars, restVars>>

\* A caller enters get(key).
CallGet(t, k) ==
    /\ th[t].pc = "idle" /\ th[t].n < MaxCalls
    /\ th' = [th EXCEPT ![t] = [pc |-> IF store = "mem" THEN "get_lock" ELSE "get_open",
                                key |-> k, val |-> None, n |-> @.n]]
    /\ UNCHANGED <<lock, putVals, gets, storeVars, seqVars, keyVars, restVars>>

\* self.inner.lock().unwrap()
MemLock(t) ==
    /\ th[t].pc \in {"put_lock", "get_lock"}
    /\ lock = 0
    /\ lock' = t
    /\ th' = [th EXCEPT ![t].pc = IF @ = "put_lock" THEN "put_locked" ELSE "get_locked"]
    /\ UNCHANGED <<putVals, gets, storeVars, seqVars, keyVars, restVars>>

\* lock.insert(..); Ok(()): the guard is dropped on return.
MemPut(t) ==
    /\ th[t].pc = "put_locked"
    /\ mem' = MemoryPersist_put(mem, th[t].key, th[t].val)
    /\ lock' = 0
    /\ th' = Return(t)
    /\ UNCHANGED <<putVals, gets, unix, umask, store, files, seqVars, keyVars, restVars>>

\* Ok(lock.get(..).cloned()): the guard is dropped on return.
MemGet(t) ==
    /\ th[t].pc = "get_locked"
    /\ gets' = gets \cup {[key |-> th[t].key, res |-> MemoryPersist_get(mem, th[t].key)]}
    /\ lock' = 0
    /\ th' = Return(t)
    /\ UNCHANGED <<putVals, storeVars, seqVars, keyVars, restVars>>

\* The mode a put creates its file with.
PutMode(k) ==
    IF ~unix THEN None
    ELSE IF k.kind \in {"AccountPrivateKey", "PrivateKey"}
         THEN Some(BitAndNot(KeyMode, umask))
         ELSE Some(BitAndNot(CreateMode, umask))

\* open(path) with create + truncate: the file is empty from here on.
FilePutOpen(t) ==
    LET path == path_in(th[t].key, Dir)
    IN  /\ th[t].pc = "put_open"
        /\ IF CanCreate(path)
           THEN /\ files' = Written(files, path, <<>>, PutMode(th[t].key))
                /\ th' = [th EXCEPT ![t].pc = "put_write"]
           ELSE /\ th' = Return(t)
                /\ UNCHANGED files
        /\ UNCHANGED <<lock, putVals, gets, unix, umask, store, mem, seqVars, keyVars, restVars>>

\* write_all(value) through this caller's descriptor, whose offset is 0:
\* bytes another caller wrote beyond the value's length stay.
FilePutWrite(t) ==
    LET path == path_in(th[t].key, Dir)
        old == files[path].data
        v == th[t].val
    IN  /\ th[t].pc = "put_write"
        /\ files' = [files EXCEPT ![path].data = v \o SubSeq(old, Len(v) + 1, Len(old))]
        /\ th' = Return(t)
        /\ UNCHANGED <<lock, putVals, gets, unix, umask, store, mem, seqVars, keyVars, restVars>>

\* fs::File::open(path): Err reads as None.
FileGetOpen(t) ==
    LET path == path_in(th[t].key, Dir)
    IN  /\ th[t].pc = "get_open"
        /\ IF files[path].exists
           THEN /\ th' = [th EXCEPT ![t].pc = "get_read"]
                /\ UNCHANGED gets
           ELSE /\ th' = Return(t)
                /\ gets' = gets \cup {[key |-> th[t].key, res |-> Ok(None)]}
        /\ UNCHANGED <<lock, putVals, storeVars, seqVars, keyVars, restVars>>

\* file.read_to_end(&mut v)
FileGetRead(t) ==
    /\ th[t].pc = "get_read"
    /\ gets' = gets \cup {[key |-> th[t].key, res |-> FilePersist_get(files, th[t].key)]}
    /\ th' = Return(t)
    /\ UNCHANGED <<lock, putVals, storeVars, seqVars, keyVars, restVars>>

NextShared ==
    \/ \E t \in Threads, k \in ShKeys, v \in Values : CallPut(t, k, v)
    \/ \E t \in Threads, k \in ShKeys : CallGet(t, k)
    \/ \E t \in Threads : MemLock(t)
    \/ \E t \in Threads : MemPut(t)
    \/ \E t \in Threads : MemGet(t)
    \/ \E t \in Threads : FilePutOpen(t)
    \/ \E t \in Threads : FilePutWrite(t)
    \/ \E t \in Threads : FileGetOpen(t)
    \/ \E t \in Threads : FileGetRead(t)

(***************************************************************************)
(* SpecNonce: the signed requests of one session.  The session keeps one   *)
(* cached nonce; the CA is the fixture server of test/mod.rs or a CA that  *)
(* issues a new value with every Replay-Nonce header it sends.             *)
(***************************************************************************)
\* "8_uBBV3N2DBRJczhoiB46ugJKUkUHxGzVe6xIMpjHFM", shortened.
FixtureNonce == <<"8", "_", "u", "B">>

NewNonceUrl == "/acme/new-nonce"
PostUrls == {"/acme/new-acct", "/acme/new-order", "/acme/order/YTqpYUthlVfwBncUufE8"}

\* HTTP header names compare without case.
Lower(h) ==
    CASE h = "Replay-Nonce" -> "replay-nonce"
      [] h = "Location" -> "location"
      [] OTHER -> h

Response(status, headers) == [status |-> status, headers |-> headers]
NoHeaders == [h \in {} |-> <<>>]

head_new_nonce == Response(204, [h \in {"Replay-Nonce"} |-> FixtureNonce])
post_new_acct == Response(201, [h \in {"Location"} |-> <<"a", "c", "c", "t">>])
post_new_order == Response(201, [h \in {"Location"} |-> <<"o", "r", "d">>])
post_get_order == Response(200, NoHeaders)

\* The fixture server's routes.
route_request(method, path) ==
    CASE method = "HEAD" /\ path = "/acme/new-nonce" -> head_new_nonce
      [] method = "POST" /\ path = "/acme/new-acct" -> post_new_acct
      [] method = "POST" /\ path = "/acme/new-order" -> post_new_order
      [] method = "POST" /\ path = "/acme/order/YTqpYUthlVfwBncUufE8" -> post_get_order
      [] OTHER -> Response(404, NoHeaders)

\* A CA whose responses may carry a Replay-Nonce header, each with a value
\* it has not issued before (the n-th value it issues is the number n).
LiveResponse(has, n) ==
    IF has THEN Response(200, [h \in {"Replay-Nonce"} |-> Digits(n)])
    ELSE Response(200, NoHeaders)

\* ureq::Response::header
Header(res, name) ==
    IF \E h \in DOMAIN res.headers : Lower(h) = Lower(name)
    THEN Some(res.headers[CHOOSE h \in DOMAIN res.headers : Lower(h) = Lower(name)])
    ELSE None

\* extract_header with a missing header read as the empty string.
extract_header_or_default(res, name) ==
    IF Header(res, name) # None THEN Ok(Header(res, name)[1]) ELSE Ok(<<>>)

\* ExtractHeader::extract_header
extract_header(res, name) ==
    IF Header(res, name) # None THEN Ok(Header(res, name)[1])
    ELSE Err([type |-> <<"Missing header: ", name>>])

MaxRequests == 3

InitNonce ==
    /\ ca \in {"fixture", "live"}
    /\ cache = None
    /\ issued = <<>>
    /\ sent = <<>>
    /\ ncalls = 0

\* What the CA answers, and its log of issued values after answering.
Answer(method, path, has, log) ==
    LET res == IF ca = "fixture" THEN route_request(method, path)
               ELSE LiveResponse(has, Len(log) + 1)
    IN  [res |-> res,
         log |-> IF Header(res, "replay-nonce") # None
                 THEN Append(log, Header(res, "replay-nonce")[1]) ELSE log]

\* The nonce read from an answer: its value and which issued value it is
\* (0 when the answer carried none).
Token(ans, val) ==
    [val |-> val, id |-> IF Header(ans.res, "replay-nonce") # None THEN Len(ans.log) ELSE 0]

\* One signed request: take the cached nonce or fetch one with HEAD
\* newNonce, send the request with it, then keep the nonce of the response
\* if it carries one.
SignedCall(path, headHas, postHas) ==
    LET head == Answer("HEAD", NewNonceUrl, headHas, issued)
        got == IF cache = None THEN extract_header(head.res, "replay-nonce")
               ELSE Ok(cache[1].val)
        nonce == IF cache = None THEN Token(head, got[2]) ELSE cache[1]
        log1 == IF cache = None THEN head.log ELSE issued
        post == Answer("POST", path, postHas, log1)
        next == extract_header(post.res, "replay-nonce")
    IN  /\ ncalls < MaxRequests
        /\ ncalls' = ncalls + 1
        /\ IF got[1] = "Err"
           THEN /\ issued' = log1
                /\ UNCHANGED <<cache, sent>>
           ELSE /\ issued' = post.log
                /\ sent' = Append(sent, [val |-> nonce.val, id |-> nonce.id, path |-> path,
                                         src |-> IF cache = None THEN "head" ELSE "cache",
                                         reply |-> Header(post.res, "replay-nonce") # None])
                /\ cache' = IF next[1] = "Ok" THEN Some(Token(post, next[2])) ELSE None
        /\ UNCHANGED <<ca, keyVars, storeVars, seqVars, shVars, csrVars, dayVars, cryptoVars, errVars>>

NextNonce == \E path \in PostUrls, headHas \in BOOLEAN, postHas \in BOOLEAN :
                SignedCall(path, headHas, postHas)

(***************************************************************************)
(* SpecCsr: create_csr on a list of domains.  The request is modelled by   *)
(* the DNS entries of its Subject Alternative Name extension.              *)
(***************************************************************************)
RECURSIVE Join(_, _)
\* [String]::join(sep)
Join(list, sep) ==
    IF list = <<>> THEN <<>>
    ELSE IF Len(list) = 1 THEN list[1]
    ELSE list[1] \o sep \o Join(Tail(list), sep)

RECURSIVE Split(_, _)
\* The pieces of s between the occurrences of c.
Split(s, c) ==
    IF ~Contains(s, c) THEN <<s>>
    ELSE LET i == CHOOSE k \in 1..Len(s) : s[k] = c /\ \A j \in 1..(k - 1) : s[j] # c
         IN  <<SubSeq(s, 1, i - 1)>> \o Split(SubSeq(s, i + 1, Len(s)), c)

RECURSIVE Trim(_)
Trim(s) ==
    IF s # <<>> /\ Head(s) = " " THEN Trim(Tail(s))
    ELSE IF s # <<>> /\ s[Len(s)] = " " THEN Trim(SubSeq(s, 1, Len(s) - 1))
    ELSE s

DnsPrefix == <<"D", "N", "S", ":">>

Panic(msg) == <<"Panic", msg>>

\* SubjectAlternativeName::build, as the linked openssl crate does it:
\* "conf" hands "DNS:<item>,.." to the X509V3 configuration parser, which
\* splits the value at commas; "general_name" stores every item as one
\* dNSName as it is.
SanBuilds == {"conf", "general_name"}

SanBuild(items, build) ==
    IF build = "general_name" THEN items
    ELSE LET value == Join([i \in 1..Len(items) |-> DnsPrefix \o items[i]], <<",">>)
             parts == Split(value, ",")
         IN  [i \in 1..Len(parts) |->
                 LET part == Trim(parts[i])
                 IN  IF Len(part) >= 4 /\ SubSeq(part, 1, 4) = DnsPrefix
                     THEN SubSeq(part, 5, Len(part)) ELSE part]

\* create_csr: the DNS entries of the request's alternative names.
create_csr(doms, build) ==
    LET as_lst == Join([i \in 1..Len(doms) |-> DnsPrefix \o doms[i]], <<",", " ">>)
    IN  IF Len(as_lst) < 4 THEN Panic("byte index 4 is out of bounds")
        ELSE Ok([dns |-> SanBuild(<<SubSeq(as_lst, 5, Len(as_lst))>>, build)])

DomainNames == {<<"a">>, <<"b", ".", "c">>, <<"*", ".", "d">>}
MaxDomains == 3

RECURSIVE Lists(_, _)
\* The sequences over S of length at most n.
Lists(S, n) ==
    IF n = 0 THEN {<<>>}
    ELSE Lists(S, n - 1) \cup {Append(l, x) : l \in {m \in Lists(S, n - 1) : Len(m) = n - 1}, x \in S}

InitCsr ==
    /\ domains \in Lists(DomainNames, MaxDomains)
    /\ sanBuild \in SanBuilds
    /\ csr = None

CreateCsr ==
    /\ csr = None
    /\ csr' = Some(create_csr(domains, sanBuild))
    /\ UNCHANGED <<domains, sanBuild, keyVars, storeVars, seqVars, shVars, nonceVars, dayVars,
                   cryptoVars, errVars>>

NextCsr == CreateCsr

(***************************************************************************)
(* SpecDays: Certificate::valid_days_left.  The certificate's not-after    *)
(* time is printed by openssl, parsed by parse_date and compared with the  *)
(* clock; times are seconds since 2019-01-01 00:00:00 UTC.                 *)
(***************************************************************************)
Hour == 60 * 60
SecondsPerDay == 24 * Hour

MonthNames ==
    << <<"J", "a", "n">>, <<"F", "e", "b">>, <<"M", "a", "r">>, <<"A", "p", "r">>,
       <<"M", "a", "y">>, <<"J", "u", "n">>, <<"J", "u", "l">>, <<"A", "u", "g">>,
       <<"S", "e", "p">>, <<"O", "c", "t">>, <<"N", "o", "v">>, <<"D", "e", "c">> >>

Pad2(n, pad) == IF n < 10 THEN <<pad>> \o Digits(n) ELSE Digits(n)

\* Display of Asn1TimeRef: "Apr 19 08:48:46 2019 GMT", the day padded with
\* a space.
Asn1Display(t) ==
    MonthNames[t.month] \o <<" ">> \o Pad2(t.day, " ") \o <<" ">>
        \o Pad2(t.hour, "0") \o <<":">> \o Pad2(t.minute, "0") \o <<":">>
        \o Pad2(t.second, "0") \o <<" ">> \o Digits(t.year) \o <<" ", "G", "M", "T">>

IsDigit(c) == c \in {"0", "1", "2", "3", "4", "5", "6", "7", "8", "9"}

DigitVal(c) == CHOOSE n \in 0..9 : Digits(n) = <<c>>

RECURSIVE ParseNat(_)
ParseNat(s) == IF s = <<>> THEN 0 ELSE 10 * ParseNat(SubSeq(s, 1, Len(s) - 1)) + DigitVal(s[Len(s)])

AllDigits(s) == s # <<>> /\ \A i \in 1..Len(s) : IsDigit(s[i])

IsLeap(y) == (y % 4 = 0 /\ y % 100 # 0) \/ y % 400 = 0

DaysInMonth(y, m) ==
    IF m = 2 THEN (IF IsLeap(y) THEN 29 ELSE 28)
    ELSE IF m \in {4, 6, 9, 11} THEN 30 ELSE 31

RECURSIVE DaysBeforeMonth(_, _)
DaysBeforeMonth(y, m) == IF m = 1 THEN 0 ELSE DaysBeforeMonth(y, m - 1) + DaysInMonth(y, m - 1)

RECURSIVE DaysBeforeYear(_)
DaysBeforeYear(y) ==
    IF y = 2019 THEN 0 ELSE DaysBeforeYear(y - 1) + (IF IsLeap(y - 1) THEN 366 ELSE 365)

\* PrimitiveDateTime::assume_utc as seconds since 2019-01-01 00:00:00 UTC.
Timestamp(t) ==
    (DaysBeforeYear(t.year) + DaysBeforeMonth(t.year, t.month) + (t.day - 1)) * SecondsPerDay
        + t.hour * 3600 + t.minute * 60 + t.second

\* parse_date: "[month repr:short] [day padding:space] [hour repr:24]:
\* [minute]:[second] [year repr:full] GMT"; unwrap panics on a mismatch.
parse_date(s) ==
    LET day == IF Len(s) >= 6 /\ s[5] = " " THEN SubSeq(s, 6, 6) ELSE SubSeq(s, 5, 6)
    IN  IF /\ Len(s) = 24
           /\ \E m \in 1..12 : MonthNames[m] = SubSeq(s, 1, 3)
           /\ s[4] = " " /\ AllDigits(day) /\ s[7] = " "
           /\ AllDigits(SubSeq(s, 8, 9)) /\ s[10] = ":"
           /\ AllDigits(SubSeq(s, 11, 12)) /\ s[13] = ":"
           /\ AllDigits(SubSeq(s, 14, 15)) /\ s[16] = " "
           /\ AllDigits(SubSeq(s, 17, 20))
           /\ SubSeq(s, 21, 24) = <<" ", "G", "M", "T">>
        THEN Ok([year |-> ParseNat(SubSeq(s, 17, 20)),
                 month |-> CHOOSE m \in 1..12 : MonthNames[m] = SubSeq(s, 1, 3),
                 day |-> ParseNat(day),
                 hour |-> ParseNat(SubSeq(s, 8, 9)),
                 minute |-> ParseNat(SubSeq(s, 11, 12)),
                 second |-> ParseNat(SubSeq(s, 14, 15))])
        ELSE Panic("unwrap")

\* Duration::whole_days rounded to the nearest day.
whole_days_rounded(secs) ==
    IF secs >= 0 THEN (secs + SecondsPerDay \div 2) \div SecondsPerDay
    ELSE -(((-secs) + SecondsPerDay \div 2) \div SecondsPerDay)

\* Duration::whole_days rounded down.
whole_days_floor(secs) == secs \div SecondsPerDay

\* Duration::whole_days: i64 division, which truncates toward zero.
whole_days(secs) ==
    IF secs >= 0 THEN secs \div SecondsPerDay ELSE -((-secs) \div SecondsPerDay)

\* Certificate::valid_days_left
valid_days_left(cert, clock, test) ==
    IF test THEN Ok(89)
    ELSE LET expires == parse_date(Asn1Display(cert))
         IN  IF expires[1] = "Panic" THEN expires
             ELSE Ok(whole_days(Timestamp(expires[2]) - clock))

DateTime(y, mo, d, h, mi, sec) ==
    [year |-> y, month |-> mo, day |-> d, hour |-> h, minute |-> mi, second |-> sec]

NotAfters ==
    { DateTime(2019, 5, 3, 7, 40, 15), DateTime(2019, 4, 19, 8, 48, 46),
      DateTime(2020, 2, 29, 0, 0, 0), DateTime(2020, 12, 31, 23, 59, 59) }

\* not-after minus the clock, in seconds.
Lifetimes ==
    { 89 * SecondsPerDay + h * Hour : h \in {0, 1, 12, 23} }
      \cup { 89 * SecondsPerDay + 86399, 90 * SecondsPerDay, 10 * SecondsPerDay + 5 * Hour,
             0, 1, Hour, 86399, SecondsPerDay, SecondsPerDay + 1 }
      \cup { -1, -Hour, -86399, -SecondsPerDay, -86401, -(7 * SecondsPerDay) - 1,
             -(2 * SecondsPerDay) + 1 }

InitDays ==
    /\ cfgTest \in BOOLEAN
    /\ notAfter \in NotAfters
    /\ now \in {Timestamp(notAfter) - l : l \in Lifetimes}
    /\ days = None

ValidDaysLeft ==
    /\ days = None
    /\ days' = Some(valid_days_left(notAfter, now, cfgTest))
    /\ UNCHANGED <<cfgTest, notAfter, now, keyVars, storeVars, seqVars, shVars, nonceVars, csrVars,
                   cryptoVars, errVars>>

NextDays == ValidDaysLeft

(***************************************************************************)
(* SpecCrypto: the operations of cert.rs, each a chain of calls into       *)
(* openssl.  Which primitives fail is an input; every call is followed by  *)
(* expect or unwrap.                                                       *)
(***************************************************************************)
\* The openssl calls of each operation, in the order made.
Primitives(op) ==
    CASE op = "create_rsa_key" -> <<"Rsa::generate", "from_rsa">>
      [] op = "create_p256_key" -> <<"EcGroup", "EcKey", "from_ec_key">>
      [] op = "create_p384_key" -> <<"EcGroup", "EcKey", "from_ec_key">>
      [] op = "create_csr" -> <<"X509ReqBuilder", "set_pubkey", "Stack::new">>
      [] op = "create_csr_build" ->
            <<"SubjectAlternativeName::build", "Stack::push", "add_extensions", "csr_sign">>
      [] op = "private_key_der" -> <<"from_pem", "private_key_to_der">>
      [] op = "certificate_der" -> <<"from_pem", "to_der">>
      [] op = "valid_days_left" -> <<"from_pem">>

AllPrimitives ==
    UNION {{Primitives(op)[i] : i \in DOMAIN Primitives(op)} :
             op \in {"create_rsa_key", "create_p256_key", "create_csr", "create_csr_build",
                     "private_key_der", "certificate_der", "valid_days_left"}}

\* prims called one after the other, each with .expect(name): the first
\* failing one panics, otherwise the operation goes on to ok.
Expect(prims, failing, ok) ==
    IF \E i \in DOMAIN prims : prims[i] \in failing
    THEN Panic(prims[CHOOSE i \in DOMAIN prims :
                        prims[i] \in failing /\ \A j \in 1..(i - 1) : prims[j] \notin failing])
    ELSE ok

\* The result of an operation of cert.rs, given the primitives that fail.
Crypto(c, failing) ==
    CASE c.op \in {"create_rsa_key", "create_p256_key", "create_p384_key",
                   "private_key_der", "certificate_der"} ->
            Expect(Primitives(c.op), failing, Ok(Unit))
      [] c.op = "create_csr" ->
            Expect(Primitives("create_csr"), failing,
                   IF create_csr(c.doms, c.build)[1] = "Panic" THEN create_csr(c.doms, c.build)
                   ELSE Expect(Primitives("create_csr_build"), failing,
                               create_csr(c.doms, c.build)))
      [] c.op = "valid_days_left" ->
            IF c.test THEN Ok(89)
            ELSE Expect(Primitives("valid_days_left"), failing,
                        valid_days_left(c.cert, c.clock, c.test))

MaxFailing == 1

CryptoCalls ==
    {[op |-> o] : o \in {"create_rsa_key", "create_p256_key", "create_p384_key",
                         "private_key_der", "certificate_der"}}
      \cup {[op |-> "create_csr", doms |-> d, build |-> b] :
               d \in Lists(DomainNames, 2), b \in SanBuilds}
      \cup {[op |-> "valid_days_left", cert |-> DateTime(2019, 5, 3, 7, 40, 15),
             clock |-> 0, test |-> t] : t \in BOOLEAN}

IdleCrypto == cop = Idle /\ cfail = Idle /\ cres = Idle

InitCrypto ==
    /\ cop \in CryptoCalls
    /\ cfail \in {f \in SUBSET AllPrimitives : Cardinality(f) <= MaxFailing}
    /\ cres = None

CryptoCall ==
    /\ cres = None
    /\ cres' = Some(Crypto(cop, cfail))
    /\ UNCHANGED <<cop, cfail, keyVars, storeVars, seqVars, shVars, nonceVars, csrVars, dayVars,
                   errVars>>

NextCrypto == CryptoCall

(***************************************************************************)
(* SpecError: a failed HTTP call is converted into the library's Error.    *)
(* A header value is a sequence of chunks, ";" being a chunk of its own.   *)
(* A JSON body is the sequence of its members <<name, value>>, a value     *)
(* being <<"str", s>>, <<"num", n>>, <<"null">> or <<"arr", items>>, with  *)
(* a flag telling whether the text is a complete JSON object.              *)
(***************************************************************************)
ProblemJson == <<"application/problem+json">>

\* A formatted string is the sequence of the parts written into it.
Text(s) == <<"text", s>>
Shown(what, v) == <<what, v>>

ContentTypes ==
    { None,
      Some(ProblemJson),
      Some(ProblemJson \o <<";", " charset=utf-8">>),
      Some(<<"application/json">>),
      Some(<<"text/html", ";", " charset=utf-8">>),
      Some(<<"Application/Problem+JSON">>) }

\* The documents a CA reports.
ApiProblem(type, detail, subproblems) ==
    [type |-> type, detail |-> detail, subproblems |-> subproblems]

Problems ==
    { ApiProblem("urn:ietf:params:acme:error:badNonce", None, None),
      ApiProblem("urn:ietf:params:acme:error:rateLimited", Some(<<Text("too many")>>), None),
      ApiProblem("urn:ietf:params:acme:error:malformed", Some(<<>>),
                 Some(<<"urn:ietf:params:acme:error:rejectedIdentifier">>)) }

\* The JSON text of a document: an absent member is left out ("omit") or
\* written as null ("null"); "extra" adds a member the library does not know.
Serialize(doc, style) ==
    LET opt(name, kind, v) ==
            IF v # None THEN << <<name, <<kind, v[1]>> >> >>
            ELSE IF style = "null" THEN << <<name, <<"null">> >> >>
            ELSE <<>>
    IN  [complete |-> TRUE,
         members |-> << <<"type", <<"str", doc.type>> >> >>
                       \o opt("detail", "str", doc.detail)
                       \o opt("subproblems", "arr", doc.subproblems)
                       \o (IF style = "extra" THEN << <<"status", <<"num", 400>> >> >> ELSE <<>>)]

\* Bodies that are no problem document.
Damage(body, how) ==
    CASE how = "none" -> body
      [] how = "no_type" -> [body EXCEPT !.members = Tail(@)]
      [] how = "type_number" -> [body EXCEPT !.members[1] = <<"type", <<"num", 7>> >>]
      [] how = "duplicate" -> [body EXCEPT !.members = <<@[1]>> \o @]
      [] how = "garbage" -> [complete |-> FALSE, members |-> <<>>]

\* Response::content_type: the content-type header up to its first ';',
\* "text/plain" without the header.
content_type(res) ==
    IF res.ctype = None THEN <<"text/plain">>
    ELSE LET h == res.ctype[1]
         IN  IF Contains(h, ";")
             THEN SubSeq(h, 1, (CHOOSE i \in 1..Len(h) :
                                   h[i] = ";" /\ \A j \in 1..(i - 1) : h[j] # ";") - 1)
             ELSE h

\* ExtractBody::extract_body: read_to_string(..).ok(), so a read error keeps
\* what was captured: all of the body, a part of it, or (the bytes being no
\* UTF-8) nothing.
extract_body(res) ==
    CASE res.read \in {"ok", "closed_after_body"} -> res.body
      [] res.read = "closed_midway" ->
            [complete |-> FALSE,
             members |-> SubSeq(res.body.members, 1, Len(res.body.members) - 1)]
      [] res.read = "invalid_utf8" -> [complete |-> FALSE, members |-> <<>>]

\* The values of the members called name.
MemberValues(body, name) ==
    [i \in 1..Cardinality({j \in 1..Len(body.members) : body.members[j][1] = name}) |->
        body.members[CHOOSE j \in 1..Len(body.members) :
            /\ body.members[j][1] = name
            /\ Cardinality({l \in 1..j : body.members[l][1] = name}) = i][2]]

\* serde_json::from_str::<ApiProblem>: type is a string that must be there,
\* detail and subproblems may be missing or null, other members are skipped,
\* a member given twice is an error.
from_str(body) ==
    LET ty == MemberValues(body, "type")
        de == MemberValues(body, "detail")
        su == MemberValues(body, "subproblems")
        optional(vs, kind) == Len(vs) = 0 \/ (Len(vs) = 1 /\ vs[1][1] \in {kind, "null"})
        value(vs) == IF Len(vs) = 0 \/ vs[1][1] = "null" THEN None ELSE Some(vs[1][2])
    IN  IF ~body.complete THEN Err("syntax")
        ELSE IF Len(ty) = 0 THEN Err("missing field type")
        ELSE IF Len(ty) > 1 \/ Len(de) > 1 \/ Len(su) > 1 THEN Err("duplicate field")
        ELSE IF ty[1][1] # "str" \/ ~optional(de, "str") \/ ~optional(su, "arr")
             THEN Err("invalid type")
        ELSE Ok(ApiProblem(ty[1][2], value(de), value(su)))

Error_ApiProblem(problem) == [variant |-> "ApiProblem", problem |-> problem]
Error_Json(e) == [variant |-> "Json", problem |-> e]

\* From<ureq::Error> with the deserialization error passed on as
\* Error::Json.
from_ureq_error_json(value) ==
    IF value.kind = "Transport"
    THEN Error_ApiProblem(ApiProblem("httpReqError", Some(<<Text("Transport error")>>), None))
    ELSE IF content_type(value.res) = ProblemJson
         THEN LET parsed == from_str(extract_body(value.res))
              IN  IF parsed[1] = "Ok" THEN Error_ApiProblem(parsed[2]) ELSE Error_Json(parsed[2])
         ELSE Error_ApiProblem(ApiProblem("httpReqError",
                 Some(<<Shown("status", value.res.status), Text(" "),
                        Shown("status_text", value.res.status_text), Text(" body: "),
                        Shown("body", extract_body(value.res))>>), None))

\* impl From<ureq::Error> for Error
from_ureq_error(value) ==
    IF value.kind = "Transport"
    THEN Error_ApiProblem(ApiProblem("httpReqError", Some(<<Text("Transport error")>>), None))
    ELSE IF content_type(value.res) = ProblemJson
         THEN LET body == extract_body(value.res)
                  parsed == from_str(body)
              IN  Error_ApiProblem(
                      IF parsed[1] = "Ok" THEN parsed[2]
                      ELSE ApiProblem("problemJsonFail",
                              Some(<<Text("Failed to deserialize application/problem+json ("),
                                     Shown("e", parsed[2]), Text(") body: "),
                                     Shown("body", body)>>), None))
         ELSE LET status == <<Shown("status", value.res.status), Text(" "),
                                Shown("status_text", value.res.status_text)>>
                  body == extract_body(value.res)
              IN  Error_ApiProblem(ApiProblem("httpReqError",
                      Some(status \o <<Text(" body: "), Shown("body", body)>>), None))

\* impl From<Box<ureq::Error>> for Error
from_boxed_ureq_error(value) == from_ureq_error(value)

StatusLines == {<<400, "Bad Request">>, <<503, "Service Unavailable">>}

UreqErrors ==
    {[kind |-> "Transport"]}
      \cup {[kind |-> "Status",
             res |-> [status |-> st[1], status_text |-> st[2], ctype |-> ct,
                      body |-> Damage(Serialize(doc, style), how), read |-> rd,
                      doc |-> doc, how |-> how]] :
               st \in StatusLines, ct \in ContentTypes, doc \in Problems,
               style \in {"omit", "null", "extra"},
               how \in {"none", "no_type", "type_number", "duplicate", "garbage"},
               rd \in {"ok", "closed_after_body", "closed_midway", "invalid_utf8"}}

IdleError == uerr = Idle /\ boxed = FALSE /\ converted = Idle

InitError ==
    /\ uerr \in UreqErrors
    /\ boxed \in BOOLEAN
    /\ converted = None

Convert ==
    /\ converted = None
    /\ converted' = Some(IF boxed THEN from_boxed_ureq_error(uerr) ELSE from_ureq_error(uerr))
    /\ UNCHANGED <<uerr, boxed, keyVars, storeVars, seqVars, shVars, nonceVars, csrVars, dayVars,
                   cryptoVars>>

NextError == Convert

IdleNonce == ca = Idle /\ cache = Idle /\ issued = Idle /\ sent = Idle /\ ncalls = 0
IdleCsr == domains = Idle /\ sanBuild = Idle /\ csr = Idle
IdleDays == cfgTest = FALSE /\ notAfter = Idle /\ now = 0 /\ days = Idle
IdleRest == IdleNonce /\ IdleCsr /\ IdleDays /\ IdleCrypto /\ IdleError

InitK == InitKey /\ IdleStoreVars /\ IdleStoreSeq /\ IdleShared /\ IdleRest
InitS == IdleKey /\ InitStoreVars /\ InitStoreSeq /\ IdleShared /\ IdleRest
InitSh == IdleKey /\ InitStoreVars /\ IdleStoreSeq /\ InitShared /\ IdleRest
InitN == /\ IdleKey /\ IdleStoreVars /\ IdleStoreSeq /\ IdleShared
         /\ InitNonce /\ IdleCsr /\ IdleDays /\ IdleCrypto /\ IdleError
InitC == /\ IdleKey /\ IdleStoreVars /\ IdleStoreSeq /\ IdleShared
         /\ IdleNonce /\ InitCsr /\ IdleDays /\ IdleCrypto /\ IdleError
InitD == /\ IdleKey /\ IdleStoreVars /\ IdleStoreSeq /\ IdleShared
         /\ IdleNonce /\ IdleCsr /\ InitDays /\ IdleCrypto /\ IdleError
InitCr == /\ IdleKey /\ IdleStoreVars /\ IdleStoreSeq /\ IdleShared
          /\ IdleNonce /\ IdleCsr /\ IdleDays /\ InitCrypto /\ IdleError
InitE == /\ IdleKey /\ IdleStoreVars /\ IdleStoreSeq /\ IdleShared
         /\ IdleNonce /\ IdleCsr /\ IdleDays /\ IdleCrypto /\ InitError

SpecKey == InitK /\ [][NextKey]_vars
SpecStore == InitS /\ [][NextStore]_vars
SpecShared == InitSh /\ [][NextShared]_vars
SpecNonce == InitN /\ [][NextNonce]_vars
SpecCsr == InitC /\ [][NextCsr]_vars
SpecDays == InitD /\ [][NextDays]_vars
SpecCrypto == InitCr /\ [][NextCrypto]_vars
SpecError == InitE /\ [][NextError]_vars

(***************************************************************************)
(* Claims about PersistKey                                                 *)
(***************************************************************************)
\* C1: the string form is injective: two keys with equal string forms have
\* the same realm hash, the same kind and names equal after substitution.
C1_StringFormInjective ==
    kpc \in {"shown", "path"} =>
        (strA = strB =>
            /\ keyA.realm = keyB.realm
            /\ keyA.kind = keyB.kind
            /\ Sanitize(keyA.key) = Sanitize(keyB.key))

\* C6: for every key, path_in(dir) is a file directly inside dir named
\* <realmHash>_<kindExtension>_<sanitizedName>.<ext>; the string form holds
\* no '.' or '*', and the extension is appended to the whole string form.
C6_PathShape ==
    kpc = "path" =>
        /\ strA = Digits(keyA.realm) \o <<"_">> \o KindName(keyA.kind) \o <<"_">>
                    \o Sanitize(keyA.key)
        /\ ~Contains(strA, ".") /\ ~Contains(strA, "*")
        /\ ParentOf(pathA) = Dir
        /\ FileName(pathA) = strA \o <<".">> \o KindName(keyA.kind)

(***************************************************************************)
(* Claims about the stores                                                 *)
(***************************************************************************)
\* C2: in both stores get(k) returns the value of the most recent
\* successful put(k, v), whole, and None when k was never put.
C2_GetReturnsLastPut ==
    lastOp.op = "get" => lastOp.res = Ok(lastPut[lastOp.key])

\* C3: a get that runs beside a put returns None or a value some put
\* stored in full, and once all callers have returned every stored value
\* is the whole value of one put.
C3_ConcurrentCallsAtomic ==
    /\ \A g \in gets : g.res = Ok(None) \/ \E v \in putVals[g.key] : g.res = Ok(Some(v))
    /\ (\A t \in Threads : th[t].pc = "idle") =>
          \A k \in ShKeys :
             /\ store = "file" /\ files[path_in(k, Dir)].exists =>
                    files[path_in(k, Dir)].data \in putVals[k]
             /\ store = "mem" /\ mem[to_string(k)] # None =>
                    \E v \in putVals[k] : mem[to_string(k)] = Some(v)

\* C4: FilePersist::get of a key whose file does not exist returns
\* Ok(None) and leaves the directory as it was.
C4_MissingFileIsAbsent ==
    [][(store = "file" /\ nops' = nops + 1 /\ lastOp'.op = "get"
          /\ ~files[path_in(lastOp'.key, Dir)].exists)
        => (lastOp'.res = Ok(None) /\ files' = files)]_vars

C4_Witness ==
    /\ store = "file" /\ lastOp.op = "get" /\ lastOp.res = Ok(None)
    /\ \E p \in AllPaths : files[p].exists

\* C5: on Unix every file a put of kind AccountPrivateKey or PrivateKey
\* wrote has mode 0600, also after it is overwritten, and a Certificate file
\* has the default mode of a created file.
C5_KeyFilesOwnerOnly ==
    (store = "file" /\ unix) =>
        \A k \in StoreKeys :
            lastPut[k] # None =>
                /\ files[path_in(k, Dir)].exists
                /\ files[path_in(k, Dir)].mode =
                      IF k.kind = "Certificate" THEN Some(BitAndNot(CreateMode, umask))
                      ELSE Some(KeyMode)

C5_Witness ==
    /\ store = "file" /\ unix /\ umask = 18
    /\ lastOp.op = "put" /\ lastOp.res = Ok(Unit)
    /\ lastOp.key = PersistKey(7, "PrivateKey", <<"a">>)
    /\ lastPut[PersistKey(7, "AccountPrivateKey", <<"a">>)] # None
    /\ lastPut[PersistKey(7, "Certificate", <<"a">>)] # None
    /\ files[path_in(lastOp.key, Dir)].mode = Some(KeyMode)

(***************************************************************************)
(* Claims about the nonce                                                  *)
(***************************************************************************)
\* C7 as stated: no two signed requests of a session carry the same nonce
\* value, also against the fixture CA.
C7_NoTwoRequestsSameValue ==
    \A i, j \in 1..Len(sent) : i # j => sent[i].val # sent[j].val

\* C7 amended: every signed request carries a nonce the CA issued, no
\* issued nonce is carried by two requests, the request after a response
\* without a Replay-Nonce header carries one fetched anew from newNonce,
\* and the values differ where the CA never issues a value twice.
C7_IssuedNonceUsedOnce ==
    /\ \A i \in 1..Len(sent) :
          sent[i].id \in 1..Len(issued) /\ issued[sent[i].id] = sent[i].val
    /\ \A i, j \in 1..Len(sent) : i # j => sent[i].id # sent[j].id
    /\ \A i \in 1..(Len(sent) - 1) :
          ~sent[i].reply => (sent[i + 1].src = "head" /\ sent[i + 1].id > sent[i].id)
    /\ ca = "live" => \A i, j \in 1..Len(sent) : i # j => sent[i].val # sent[j].val

C7_Witness ==
    /\ ca = "live" /\ Len(sent) = 3
    /\ sent[1].src = "head" /\ sent[1].reply
    /\ sent[2].src = "cache" /\ ~sent[2].reply
    /\ sent[3].src = "head"

(***************************************************************************)
(* Claims about create_csr                                                 *)
(***************************************************************************)
Range(f) == {f[i] : i \in DOMAIN f}

\* C8: for every list of domains, the empty one included, create_csr
\* returns a request whose DNS alternative names are, as a set, the domains.
C8_SanEqualsDomains ==
    csr # None =>
        /\ csr[1][1] = "Ok"
        /\ Range(csr[1][2].dns) = Range(domains)

(***************************************************************************)
(* Claims about valid_days_left                                            *)
(***************************************************************************)
\* not-after minus the clock.
Left == Timestamp(notAfter) - now

\* C9 as stated: 89 days and h hours (0 < h < 24) before expiry the result
\* is 89, and at or before expiry it is floor(left / 1 day).
C9_WholeDaysTruncated ==
    days # None =>
        /\ (\E h \in 1..23 : Left = 89 * SecondsPerDay + h * Hour) => days[1] = Ok(89)
        /\ Left >= 0 => days[1] = Ok(Left \div SecondsPerDay)

\* C9 amended: the same in a build that is not the crate's test build; the
\* test build returns 89 whatever the certificate.
C9_WholeDaysTruncatedOutsideTests ==
    days # None =>
        /\ ~cfgTest =>
              /\ (\E h \in 1..23 : Left = 89 * SecondsPerDay + h * Hour) => days[1] = Ok(89)
              /\ Left >= 0 => days[1] = Ok(Left \div SecondsPerDay)
        /\ cfgTest => days[1] = Ok(89)

C9_Witness ==
    /\ days # None /\ ~cfgTest
    /\ Left = 89 * SecondsPerDay + 12 * Hour
    /\ days[1] = Ok(89)

\* C10 as stated: the result is negative for every expired certificate,
\* however recently it expired, and not negative otherwise.
C10_NegativeIffExpired ==
    days # None =>
        /\ Left < 0 => (days[1][1] = "Ok" /\ days[1][2] < 0)
        /\ Left >= 0 => (days[1][1] = "Ok" /\ days[1][2] >= 0)

\* C10 amended: outside the test build the result is never positive for an
\* expired certificate, negative exactly when it expired a whole day or
\* more ago (0 within the first day), and not negative before expiry.
C10_NegativeFromOneDayExpired ==
    (days # None /\ ~cfgTest) =>
        /\ days[1][1] = "Ok"
        /\ Left < 0 => days[1][2] <= 0
        /\ days[1][2] < 0 <=> Left <= -SecondsPerDay
        /\ Left >= 0 => days[1][2] >= 0

C10_Witness ==
    /\ days # None /\ ~cfgTest
    /\ Left = -Hour
    /\ days[1] = Ok(0)

(***************************************************************************)
(* Claims about failing primitives                                         *)
(***************************************************************************)
\* The primitives the operation reaches that fail.
Failed ==
    {p \in cfail :
        \/ \E i \in DOMAIN Primitives(cop.op) : Primitives(cop.op)[i] = p
        \/ cop.op = "create_csr" /\ \E i \in DOMAIN Primitives("create_csr_build") :
                                        Primitives("create_csr_build")[i] = p}

\* C11: no operation of cert.rs crashes, and one whose primitive fails
\* returns an Err of the crypto-failure kind.
C11_FailuresAreErrors ==
    cres # None =>
        /\ cres[1][1] # "Panic"
        /\ (Failed # {} /\ ~(cop.op = "valid_days_left" /\ cop.test)) => cres[1][1] = "Err"

\* What get(k) returns from the store as it is.
Stored(k) == IF store = "mem" THEN MemoryPersist_get(mem, k) ELSE FilePersist_get(files, k)

\* k1 and k2 differ in realm, in kind, or in name after the substitution.
OtherKey(k1, k2) ==
    k1.realm # k2.realm \/ k1.kind # k2.kind \/ Sanitize(k1.key) # Sanitize(k2.key)

\* C13: put(k1, v) leaves get(k2) as it was for every k2 that differs from
\* k1 in realm, kind or substituted name, in MemoryPersist and FilePersist.
C13_PutLeavesOtherKeys ==
    [][\A k2 \in StoreKeys :
          (lastOp'.op = "put" /\ nops' = nops + 1 /\ OtherKey(lastOp'.key, k2))
              => Stored(k2)' = Stored(k2)]_vars

(***************************************************************************)
(* Claims about the conversion of ureq::Error                              *)
(***************************************************************************)
\* C12: the conversion always yields Error::ApiProblem: httpReqError
\* "Transport error" for a transport failure, the document the CA sent for a
\* well-formed application/problem+json body, problemJsonFail for a
\* malformed one, and for any other content type httpReqError with the
\* status code, the status text and the body in its detail.
C12_AlwaysApiProblem ==
    converted # None =>
        LET e == converted[1]
            res == uerr.res
            whole == res.read \in {"ok", "closed_after_body"} /\ res.how = "none"
        IN  /\ e.variant = "ApiProblem"
            /\ uerr.kind = "Transport" =>
                  e.problem = ApiProblem("httpReqError", Some(<<Text("Transport error")>>), None)
            /\ (uerr.kind = "Status" /\ content_type(res) = ProblemJson /\ whole) =>
                  e.problem = res.doc
            /\ (uerr.kind = "Status" /\ content_type(res) = ProblemJson /\ ~whole) =>
                  e.problem.type = "problemJsonFail"
            /\ (uerr.kind = "Status" /\ content_type(res) # ProblemJson) =>
                  /\ e.problem.type = "httpReqError"
                  /\ e.problem.subproblems = None
                  /\ e.problem.detail # None
                  /\ \A what \in {"status", "status_text", "body"} :
                        \E i \in 1..Len(e.problem.detail[1]) :
                            e.problem.detail[1][i] =
                                Shown(what, CASE what = "status" -> res.status
                                              [] what = "status_text" -> res.status_text
                                              [] what = "body" -> extract_body(res))

C12_Witness ==
    /\ converted # None /\ uerr.kind = "Status" /\ boxed
    /\ uerr.res.ctype = Some(ProblemJson \o <<";", " charset=utf-8">>)
    /\ uerr.res.how = "none" /\ uerr.res.read = "closed_after_body"
    /\ uerr.res.doc.subproblems # None
    /\ converted[1] = Error_ApiProblem(uerr.res.doc)

====
